---- MODULE Spec2Model ----
(***************************************************************************)
(* Model of the command dispatcher of src/server/main_service.cc:          *)
(* Service::DispatchCommand, Multi, Exec, Eval, EvalSha, EvalInternal and  *)
(* CallFromScript, for one client connection of one proactor thread.       *)
(*                                                                         *)
(* A handler runs to completion before the next command of the connection  *)
(* is dispatched, so one top-level DispatchCommand is one step.  The       *)
(* connection context is threaded through the operators as a record; the   *)
(* calls a step makes (handlers, replies, Schedule, UnlockMulti) are kept   *)
(* in `log`, the trace of the last top-level dispatch.                     *)
(***************************************************************************)
EXTENDS Integers, Sequences, FiniteSets, TLC

VARIABLES
  gstate,         \* ServerState::gstate(): GlobalState of the thread
  is_master,      \* ServerState::is_master
  mask,           \* ConnectionState::mask
  exec_state,     \* ConnectionState::exec_state
  exec_body,      \* ConnectionState::exec_body
  script_info,    \* ConnectionState::script_info (optional)
  transaction,    \* ConnectionContext::transaction
  reply_builder,  \* ConnectionContext's current reply builder
  rb_error,       \* GetError() of the connection's RESP builder
  thread,         \* the proactor thread that owns the connection
  interp_funcs,   \* per thread: functions (by sha) its interpreter holds
  script_cache,   \* ScriptMgr: sha -> body
  status,         \* "open", "closed" (QUIT) or "crashed"
  last_args,      \* argv of the last top-level dispatch, as the client sent it
  log,            \* calls made by the last top-level dispatch
  mc_cmd,         \* the Memcached command DispatchMC was last given
  array_len_,     \* InterpreterReplier::array_len_
  num_elems_,     \* InterpreterReplier::num_elems_
  explr,          \* what the ObjectExplorer of the InterpreterReplier has seen
  frames          \* per open array of the replier's caller: items still to send

vars == <<gstate, is_master, mask, exec_state, exec_body, script_info, transaction,
          reply_builder, rb_error, thread, interp_funcs, script_cache, status,
          last_args, log, mc_cmd, array_len_, num_elems_, explr, frames>>

\* An InterpreterReplier and its caller.
ReplierVars == <<array_len_, num_elems_, explr, frames>>

\* The proactor threads, each with its own interpreter.
Threads == {"t1", "t2"}

\* Bound of the model: the longest exec_body a MULTI may collect.
MaxBody == 2

(***************************************************************************)
(* Enumerations                                                            *)
(***************************************************************************)
EXEC_INACTIVE == "EXEC_INACTIVE"
EXEC_COLLECT == "EXEC_COLLECT"
EXEC_ERROR == "EXEC_ERROR"

ACTIVE == "ACTIVE"
LOADING == "LOADING"
SHUTTING_DOWN == "SHUTTING_DOWN"

REQ_AUTH == "REQ_AUTH"
AUTHENTICATED == "AUTHENTICATED"

nullptr == "nullptr"

\* Error texts written by the dispatcher and the handlers of this file.
kUnknownCmd == "unknown command"
kNoAuth == "-NOAUTH Authentication required."
kNoScriptCmd == "This Redis command is not allowed from script"
kReadOnly == "-READONLY You can't write against a read only replica."
kAdminUnderMulti == "Can not run admin commands under transactions"
kSelectUnderMulti == "Can not call SELECT within a transaction"
kUndeclaredKey == "script tried accessing undeclared key"
kNestedMulti == "MULTI calls can not be nested"
kExecWithoutMulti == "EXEC without MULTI"
kExecAbort == "-EXECABORT Transaction discarded because of previous errors"
kInvalidIntErr == "value is not an integer or out of range"
kTooManyKeys == "Number of keys can't be greater than number of args"
kScriptNotFound == "-NOSCRIPT No matching script. Please use EVAL."
kRunError == "Error running script"
kWrongType == "-WRONGTYPE Operation against a key holding the wrong kind of value"
kWrongPass == "-ERR invalid password"

WrongNumArgsError(cmd_str) == "wrong number of arguments for '" \o cmd_str \o "' command"

GStateError(g) == "Can not execute during " \o g

(***************************************************************************)
(* Strings: the conversions the dispatcher applies to its arguments.       *)
(***************************************************************************)
\* ToUpper(&args[0]): ASCII upper-casing, on the names the clients of the model send.
ToUpper(s) ==
  CASE s = "multi" -> "MULTI"
    [] s = "exec" -> "EXEC"
    [] s = "get" -> "GET"
    [] OTHER -> s

\* absl::SimpleAtoi into int32: the numerals the model uses; anything else fails.
Numerals == [s \in {"0", "1", "2", "-1"} |->
               CASE s = "0" -> 0 [] s = "1" -> 1 [] s = "2" -> 2 [] OTHER -> 0 - 1]

SimpleAtoi(s) == IF s \in DOMAIN Numerals THEN [ok |-> TRUE, val |-> Numerals[s]]
                 ELSE [ok |-> FALSE, val |-> 0]

(***************************************************************************)
(* Command registry                                                        *)
(***************************************************************************)
CI(name, opt_mask, arity, first_key, last_key, step, validator) ==
  [name |-> name, opt_mask |-> opt_mask, arity |-> arity, first_key_pos |-> first_key,
   last_key_pos |-> last_key, key_arg_step |-> step, validator |-> validator]

\* The commands Service::RegisterCommands registers itself.
ServiceCommands ==
  { CI("QUIT", {"READONLY", "FAST"}, 1, 0, 0, 0, "none"),
    CI("MULTI", {"NOSCRIPT", "FAST", "LOADING"}, 1, 0, 0, 0, "none"),
    CI("EVAL", {"NOSCRIPT"}, 0 - 3, 0, 0, 0, "EvalValidator"),
    CI("EVALSHA", {"NOSCRIPT"}, 0 - 3, 0, 0, 0, "EvalValidator"),
    CI("EXEC", {"LOADING", "NOSCRIPT", "GLOBAL_TRANS"}, 1, 0, 0, 0, "none") }

\* Representatives of the commands the families register (string, generic, server).
FamilyCommands ==
  { CI("GET", {"READONLY", "FAST"}, 2, 1, 1, 1, "none"),
    CI("SET", {"WRITE", "DENYOOM"}, 0 - 3, 1, 1, 1, "none"),
    CI("MSET", {"WRITE", "DENYOOM"}, 0 - 3, 1, 0 - 1, 2, "none"),
    CI("SELECT", {"FAST"}, 2, 0, 0, 0, "none"),
    CI("AUTH", {"NOSCRIPT", "FAST"}, 2, 0, 0, 0, "none"),
    CI("DEBUG", {"ADMIN", "RANDOM"}, 0 - 2, 0, 0, 0, "none"),
    CI("MGET", {"READONLY", "FAST"}, 0 - 2, 1, 0 - 1, 1, "none"),
    CI("DEL", {"WRITE"}, 0 - 2, 1, 0 - 1, 1, "none"),
    CI("APPEND", {"WRITE", "FAST"}, 3, 1, 1, 1, "none"),
    CI("PREPEND", {"WRITE", "FAST"}, 3, 1, 1, 1, "none"),
    CI("INCRBY", {"WRITE", "DENYOOM", "FAST"}, 3, 1, 1, 1, "none"),
    CI("DECRBY", {"WRITE", "DENYOOM", "FAST"}, 3, 1, 1, 1, "none") }

registry_ == ServiceCommands \cup FamilyCommands

NullCid == CI("", {}, 0, 0, 0, 0, "none")

\* CommandRegistry::Find: exact match on the (upper-cased) name, nullptr when absent.
Find(cmd_str) ==
  IF \E cid \in registry_ : cid.name = cmd_str
  THEN CHOOSE cid \in registry_ : cid.name = cmd_str
  ELSE NullCid

IsTransactional(cid) ==
  \/ cid.first_key_pos > 0
  \/ "GLOBAL_TRANS" \in cid.opt_mask
  \/ cid.name \in {"EVAL", "EVALSHA"}

\* DetermineKeys: the argv positions [start, end) (0-based) that hold keys.
DetermineKeys(cid, args) ==
  IF cid.first_key_pos > 0
  THEN [start |-> cid.first_key_pos,
        end |-> IF cid.last_key_pos > 0 THEN cid.last_key_pos + 1
                ELSE Len(args) + 1 + cid.last_key_pos,
        step |-> cid.key_arg_step]
  ELSE [start |-> 0, end |-> 0, step |-> 0]

\* ArgS(args, i): the i-th argument, 0-based as in the source.
ArgS(args, i) == args[i + 1]

(***************************************************************************)
(* Scripts.  A body stands for the redis.call()s it makes, in order.       *)
(***************************************************************************)
sGet1 == "return redis.call('GET','k1')"
sGet2 == "return redis.call('GET','k2')"
sMulti == "return redis.call('MULTI')"
sBadLua == "return ("
sMSet == "return redis.call('MSET','k1','v')"

Bodies == {sGet1, sGet2, sMulti, sMSet}

ScriptCalls(body) ==
  CASE body = sGet1 -> << <<"GET", "k1">> >>
    [] body = sGet2 -> << <<"GET", "k2">> >>
    [] body = sMulti -> << <<"MULTI">> >>
    [] body = sMSet -> << <<"MSET", "k1", "v">> >>
    [] OTHER -> << >>

\* absl::StripAsciiWhitespace on the bodies of the model.
StripAsciiWhitespace(body) == IF body = " " THEN "" ELSE body

\* The sha1 of a body, as Interpreter::AddFunction reports it (40 hex digits).
ShaOf(body) ==
  CASE body = sGet1 -> "aaaaaaaaaaaaaaaaaaaaaaaaaaaaaaaaaaaaaaaa"
    [] body = sGet2 -> "2222222222222222222222222222222222222222"
    [] body = sMulti -> "3333333333333333333333333333333333333333"
    [] body = sMSet -> "5555555555555555555555555555555555555555"
    [] OTHER -> "0000000000000000000000000000000000000000"

KnownShas == {ShaOf(b) : b \in Bodies}

BodyOfSha(sha) == CHOOSE b \in Bodies : ShaOf(b) = sha

\* Strings of the model that hold only hex digits.
HexStrings == KnownShas \cup {"4444444444444444444444444444444444444444", "abc"}

IsSHA(str) == str \in HexStrings

\* ToLower(&args[1]) on the sha arguments of the model.
ToLower(s) ==
  IF s = "AAAAAAAAAAAAAAAAAAAAAAAAAAAAAAAAAAAAAAAA"
  THEN "aaaaaaaaaaaaaaaaaaaaaaaaaaaaaaaaaaaaaaaa" ELSE s

\* Keys of the store that hold a value of another type: GET on them is an error.
WrongTypeKeys == {"k2"}

kPassword == "secret"

(***************************************************************************)
(* Reply builders.  Every call on a builder is logged with the builder it  *)
(* was made on ("resp": the client wire, "interp": the InterpreterReplier  *)
(* of a script call), whether a script was running (us) with which KEYS,   *)
(* and exec_state.                                                         *)
(***************************************************************************)
Event(c, rb, ev, a, args, n) ==
  [ev |-> ev, a |-> a, args |-> args, n |-> n, sink |-> rb,
   us |-> c.script_info.present, keys |-> c.script_info.keys, es |-> c.exec_state]

Emit(c, e) == [c EXCEPT !.log = Append(@, e)]

\* SendError on builder rb: the RESP builder remembers that it sent an error.
SendErrorTo(c, rb, str) ==
  LET c1 == Emit(c, Event(c, rb, "SendError", str, << >>, 0))
  IN IF rb = "resp" THEN [c1 EXCEPT !.rb_error = TRUE] ELSE c1

SendError(c, str) == SendErrorTo(c, c.reply_builder, str)

SendSimpleString(c, str) == Emit(c, Event(c, c.reply_builder, "SendSimpleString", str, << >>, 0))

SendOk(c) == SendSimpleString(c, "OK")

SendStored(c) == SendSimpleString(c, "OK")

SendNull(c) == Emit(c, Event(c, c.reply_builder, "SendNull", "", << >>, 0))

SendBulkString(c, str) == Emit(c, Event(c, c.reply_builder, "SendBulkString", str, << >>, 0))

StartArrayTo(c, rb, len) == Emit(c, Event(c, rb, "StartArray", "", << >>, len))

CloseConnection(c) ==
  [Emit(c, Event(c, c.reply_builder, "CloseConnection", "", << >>, 0)) EXCEPT !.status = "closed"]

\* ConnectionContext::Inject: install a reply builder.
Inject(c, rb) == [c EXCEPT !.reply_builder = rb]

(***************************************************************************)
(* Transaction: the calls the dispatcher makes on it.                      *)
(***************************************************************************)
TxCall(c, what, a) == Emit(c, Event(c, "transaction", what, a, << >>, 0))

Schedule(c) == TxCall(c, "Schedule", "")

UnlockMulti(c) == TxCall(c, "UnlockMulti", "")

SetExecCmd(c, cid) == TxCall(c, "SetExecCmd", cid.name)

(***************************************************************************)
(* Handlers of the commands other families register.                       *)
(***************************************************************************)
\* ServerFamily::Auth: the right password authenticates the connection.
Auth(args, c) ==
  IF ArgS(args, 1) = kPassword
  THEN SendOk([c EXCEPT !.mask = @ \cup {AUTHENTICATED}])
  ELSE SendError(c, kWrongPass)

\* A keyed or keyless family command: it replies once, with an error when it
\* reads a key of the wrong type.
FamilyHandler(cid, args, c) ==
  CASE cid.name = "GET" ->
         IF ArgS(args, 1) \in WrongTypeKeys THEN SendError(c, kWrongType)
         ELSE SendBulkString(c, "value")
    [] cid.name \in {"SET", "MSET"} -> SendStored(c)
    [] OTHER -> SendOk(c)

(***************************************************************************)
(* Service                                                                 *)
(***************************************************************************)
RECURSIVE DispatchCommand(_, _)
RECURSIVE Invoke(_, _, _)
RECURSIVE CallFromScript(_, _)
RECURSIVE RunCalls(_, _, _)
RECURSIVE EvalInternal(_, _)
RECURSIVE EvalInternalRun(_, _)
RECURSIVE Eval(_, _)
RECURSIVE EvalSha(_, _)
RECURSIVE ExecLoop(_, _, _, _)
RECURSIVE Exec(_, _)
RECURSIVE AfterCall(_, _, _, _)
RECURSIVE AfterInvoke(_, _, _, _)

\* EvalValidator: [ok, c], c with the error the validator wrote.
EvalValidator(args, c) ==
  LET num_keys == SimpleAtoi(ArgS(args, 2))
  IN IF ~num_keys.ok \/ num_keys.val < 0
     THEN [ok |-> FALSE, c |-> SendError(c, kInvalidIntErr)]
     ELSE IF num_keys.val > Len(args) - 3
     THEN [ok |-> FALSE, c |-> SendError(c, kTooManyKeys)]
     ELSE [ok |-> TRUE, c |-> c]

\* CommandId::Validate: the custom validator of the command, if it has one.
Validate(cid, args, c) ==
  IF cid.validator = "EvalValidator" THEN EvalValidator(args, c)
  ELSE [ok |-> TRUE, c |-> c]

\* The multi_error cleanup of DispatchCommand, run on every return before Cancel().
multi_error(c) ==
  IF c.exec_state # EXEC_INACTIVE THEN [c EXCEPT !.exec_state = EXEC_ERROR] ELSE c

\* StoredCmd{cid} with a copy of the arguments.
StoredCmd(cid, args) == [descr |-> cid.name, cmd |-> args]

\* The keys of [start, end) that the script did not declare.
UndeclaredKeys(c, key_index, args) ==
  {i \in key_index.start .. key_index.end - 1 : ArgS(args, i) \notin c.script_info.keys}

Quit(args, c) == CloseConnection(SendOk(c))

Multi(args, c) ==
  IF c.exec_state # EXEC_INACTIVE THEN SendError(c, kNestedMulti)
  ELSE SendOk([c EXCEPT !.exec_state = EXEC_COLLECT])

\* Mutant: the transaction pointer is left as the handler had it.
ResetTransaction_Skip(c, under_script) == c

\* The end of DispatchCommand: outside a script, cntx->transaction = nullptr.
ResetTransaction(c, under_script) ==
  IF ~under_script /\ c.status # "crashed" THEN [c EXCEPT !.transaction = nullptr] ELSE c

\* Mutant: the queued command is put in front of exec_body.
DispatchValidated_Prepend(cntx, cid, args, is_trans_cmd, under_script) ==
  IF cntx.exec_state # EXEC_INACTIVE /\ ~is_trans_cmd
  THEN SendSimpleString([cntx EXCEPT !.exec_body = <<StoredCmd(cid, args)>> \o @], "QUEUED")
  ELSE ResetTransaction(
         Invoke(cid, args,
                [cntx EXCEPT !.transaction = IF IsTransactional(cid) THEN "txn" ELSE nullptr]),
         FALSE)

\* The part of DispatchCommand after std::move(multi_error).Cancel().
DispatchValidated(cntx, cid, args, is_trans_cmd, under_script) ==
  IF cntx.exec_state # EXEC_INACTIVE /\ ~is_trans_cmd
  THEN SendSimpleString([cntx EXCEPT !.exec_body = Append(@, StoredCmd(cid, args))], "QUEUED")
  ELSE IF under_script /\ UndeclaredKeys(cntx, DetermineKeys(cid, args), args) # {}
  THEN SendError(cntx, kUndeclaredKey)
  ELSE ResetTransaction(
         Invoke(cid, args,
                IF under_script THEN SetExecCmd(cntx, cid)
                ELSE [cntx EXCEPT !.transaction =
                                    IF IsTransactional(cid) THEN "txn" ELSE nullptr]),
         under_script)

\* ServerState::RecordCmd, called on entry of every DispatchCommand.
RecordCmd(c, args) == Emit(c, Event(c, c.reply_builder, "RecordCmd", "", args, 0))

\* The checks of DispatchCommand, each TRUE when it refuses the command.
GlobalStateGate(cid) == gstate \in {LOADING, SHUTTING_DOWN}

\* Mutant: no auth gate.
AuthGate_Off(cntx, cid) == FALSE

AuthGate(cntx, cid) ==
  cntx.mask \cap {REQ_AUTH, AUTHENTICATED} = {REQ_AUTH} /\ cid.name # "AUTH"

NoScriptGate(cid, under_script) == under_script /\ "NOSCRIPT" \in cid.opt_mask

\* Mutant: no replica gate.
ReplicaGate_Off(is_write_cmd) == FALSE

ReplicaGate(is_write_cmd) == ~is_master /\ is_write_cmd

\* Mutant: a positive arity is taken as a minimum.
ArityGate_AtLeast(cid, args) ==
  \/ (cid.arity > 0 /\ Len(args) < cid.arity)
  \/ (cid.arity < 0 /\ Len(args) < 0 - cid.arity)

ArityGate(cid, args) ==
  \/ (cid.arity > 0 /\ Len(args) # cid.arity)
  \/ (cid.arity < 0 /\ Len(args) < 0 - cid.arity)

KeyStepGate(cid, args) == cid.key_arg_step = 2 /\ Len(args) % 2 = 0

AdminGate(cid, under_multi) == under_multi /\ "ADMIN" \in cid.opt_mask

\* Mutant: SELECT is not refused under MULTI.
SelectGate_Off(cid, under_multi) == FALSE

SelectGate(cid, under_multi) == under_multi /\ cid.name = "SELECT"

DispatchCommand(cntx0, args0) ==
  LET args == [args0 EXCEPT ![1] = ToUpper(@)]
      cmd_str == ArgS(args, 0)
      is_trans_cmd == cmd_str \in {"EXEC", "MULTI"}
      cid == Find(cmd_str)
      cntx == RecordCmd(cntx0, args)
      under_script == cntx.script_info.present
      is_write_cmd == "WRITE" \in cid.opt_mask \/ (under_script /\ cntx.script_info.is_write)
      under_multi == cntx.exec_state # EXEC_INACTIVE /\ ~is_trans_cmd
      valid == Validate(cid, args, cntx)
  IN IF cid = NullCid
     THEN multi_error(SendError(cntx, kUnknownCmd))
     ELSE IF GlobalStateGate(cid)
     THEN multi_error(SendError(cntx, GStateError(gstate)))
     ELSE IF AuthGate(cntx, cid)
     THEN multi_error(SendError(cntx, kNoAuth))
     ELSE IF NoScriptGate(cid, under_script)
     THEN multi_error(SendError(cntx, kNoScriptCmd))
     ELSE IF ReplicaGate(is_write_cmd)
     THEN multi_error(SendError(cntx, kReadOnly))
     ELSE IF ArityGate(cid, args)
     THEN multi_error(SendError(cntx, WrongNumArgsError(cmd_str)))
     ELSE IF KeyStepGate(cid, args)
     THEN multi_error(SendError(cntx, WrongNumArgsError(cmd_str)))
     ELSE IF ~valid.ok
     THEN multi_error(valid.c)
     ELSE IF AdminGate(cid, under_multi)
     THEN multi_error(SendError(cntx, kAdminUnderMulti))
     ELSE IF SelectGate(cid, under_multi)
     THEN multi_error(SendError(cntx, kSelectUnderMulti))
     ELSE DispatchValidated(cntx, cid, args, is_trans_cmd, under_script)

\* CommandId::Invoke: the handler the registry holds for the command.
Invoke(cid, args, c) ==
  LET c1 == Emit(c, Event(c, "handler", "Invoke", cid.name, args, 0))
  IN CASE cid.name = "QUIT" -> Quit(args, c1)
       [] cid.name = "MULTI" -> Multi(args, c1)
       [] cid.name = "EVAL" -> Eval(args, c1)
       [] cid.name = "EVALSHA" -> EvalSha(args, c1)
       [] cid.name = "EXEC" -> Exec(args, c1)
       [] cid.name = "AUTH" -> Auth(args, c1)
       [] OTHER -> FamilyHandler(cid, args, c1)

\* Mutant: the reply builder is not restored after the nested dispatch.
CallFromScript_NoRestore(args, cntx) == DispatchCommand(Inject(cntx, "interp"), args)

CallFromScript(args, cntx) ==
  LET orig == cntx.reply_builder
      c1 == Inject(cntx, "interp")
      c2 == DispatchCommand(c1, args)
  IN Inject(c2, orig)

\* Interpreter::RunFunction: the script makes its redis.call()s in order through
\* the hook SetRedisFunc installed; an error reply to a call raises and ends it.
RunCalls(c, calls, i) ==
  IF i > Len(calls) THEN [c |-> c, result |-> "RUN_OK"]
  ELSE AfterCall(c, CallFromScript(calls[i], c), calls, i)

\* What the script does with the reply to its call number i.
AfterCall(c, c1, calls, i) ==
  LET got == SubSeq(c1.log, Len(c.log) + 1, Len(c1.log))
  IN IF \E j \in 1 .. Len(got) : got[j].ev = "SendError" /\ got[j].sink = "interp"
     THEN [c |-> c1, result |-> "RUN_ERR"]
     ELSE RunCalls(c1, calls, i + 1)

RunFunction(c, sha) == RunCalls(c, ScriptCalls(BodyOfSha(sha)), 1)

\* A call on the thread's interpreter, and its lock: interpreter->Lock() and the
\* release when the guard goes out of scope.
InterpOp(c, op) == Emit(c, Event(c, "interpreter", "Interp", op, << >>, 0))

Lock(c) == Emit(c, Event(c, "interpreter", "Lock", "", << >>, 0))

Unlock(c) == Emit(c, Event(c, "interpreter", "Unlock", "", << >>, 0))

\* Interpreter::Exists
Exists(c, sha) == sha \in c.interp_funcs

\* Interpreter::AddFunction of a body that compiles.
AddFunction(c, body) ==
  [c |-> [InterpOp(c, "AddFunction") EXCEPT !.interp_funcs = @ \cup {ShaOf(body)}],
   result |-> IF ShaOf(body) \in c.interp_funcs THEN "ALREADY_EXISTS" ELSE "ADD_OK",
   sha |-> ShaOf(body)]

\* CHECK_EQ(Interpreter::ADD_OK, AddFunction(body, &res)); CHECK_EQ(res, sha):
\* the process dies when a check fails.
CheckAdded(added, sha) ==
  IF added.result = "ADD_OK" /\ added.sha = sha THEN added.c
  ELSE [Emit(added.c, Event(added.c, "service", "CheckFailed", sha, << >>, 0))
          EXCEPT !.status = "crashed"]

\* Mutant: the script cache forgets the body.
InsertFunction_Skip(c, sha, body) == c

\* ScriptMgr::InsertFunction
InsertFunction(c, sha, body) ==
  [c EXCEPT !.script_cache = @ \cup {sha}]

\* Mutant: the script cache finds a body for every name.
FindScript_Any(c, sha) == sGet1

\* ScriptMgr::Find
FindScript(c, sha) == IF sha \in c.script_cache THEN BodyOfSha(sha) ELSE nullptr

\* What the script returns: the reply to its last redis.call.
ScriptValue(l) ==
  LET got == {j \in 1 .. Len(l) : l[j].sink = "interp"}
  IN IF got = {} THEN "nil" ELSE l[CHOOSE j \in got : \A k \in got : k <= j].a

\* Entry to and return from EvalInternal, with the KEYS it was given.
Enter(c, eval_args) == Emit(c, Event(c, "service", "Enter", "EvalInternal", eval_args.keys, 0))

Leave(c) == Emit(c, Event(c, "service", "Leave", "EvalInternal", << >>, 0))

\* Mutant: a script that failed keeps its locks.
AfterRun_NoUnlockOnError(eval_args, run) ==
  LET c3 == [run.c EXCEPT !.script_info =
               [present |-> FALSE, keys |-> {}, is_write |-> FALSE]]
  IN IF run.result = "RUN_ERR" THEN Unlock(SendError(c3, kRunError))
     ELSE Unlock(SendBulkString(IF eval_args.keys # << >> THEN UnlockMulti(c3) ELSE c3,
                                ScriptValue(run.c.log)))

\* The part of EvalInternal after RunFunction returned.
AfterRun(eval_args, run) ==
  LET c3 == [run.c EXCEPT !.script_info =
               [present |-> FALSE, keys |-> {}, is_write |-> FALSE]]
      c4 == IF eval_args.keys # << >> THEN UnlockMulti(c3) ELSE c3
  IN IF run.result = "RUN_ERR" THEN Unlock(SendError(c4, kRunError))
     ELSE Unlock(InterpOp(SendBulkString(InterpOp(InterpOp(c4, "IsResultSafe"),
                                                  "SerializeResult"),
                                         ScriptValue(run.c.log)),
                          "ResetStack"))

\* EvalInternal between its entry and its return.
EvalInternalRun(eval_args, cntx) ==
  IF Len(eval_args.sha) # 40 \/ ~IsSHA(eval_args.sha)
  THEN SendError(cntx, kScriptNotFound)
  ELSE IF ~Exists(cntx, eval_args.sha) /\ FindScript(cntx, eval_args.sha) = nullptr
  THEN SendError(InterpOp(cntx, "Exists"), kScriptNotFound)
  ELSE LET c0 == IF Exists(cntx, eval_args.sha) THEN InterpOp(cntx, "Exists")
                 ELSE CheckAdded(AddFunction(InterpOp(cntx, "Exists"),
                                             FindScript(cntx, eval_args.sha)),
                                 eval_args.sha)
           c1 == [c0 EXCEPT !.script_info =
                    [present |-> TRUE,
                     keys |-> {eval_args.keys[i] : i \in 1 .. Len(eval_args.keys)},
                     is_write |-> FALSE]]
           c2 == IF eval_args.keys # << >> THEN Schedule(c1) ELSE c1
           c3 == InterpOp(InterpOp(InterpOp(Lock(c2), "SetGlobalArray"),
                                   "SetGlobalArray"), "SetRedisFunc")
       IN AfterRun(eval_args, RunFunction(InterpOp(c3, "RunFunction"), eval_args.sha))

EvalInternal(eval_args, cntx) == Leave(EvalInternalRun(eval_args, Enter(cntx, eval_args)))

Eval(args, cntx) ==
  LET num_keys == SimpleAtoi(ArgS(args, 2)).val
      body == StripAsciiWhitespace(ArgS(args, 1))
      added == AddFunction(cntx, body)
      c1 == IF added.result = "ADD_OK" THEN InsertFunction(added.c, added.sha, body)
            ELSE added.c
  IN IF body = "" THEN SendNull(cntx)
     ELSE IF body = sBadLua THEN SendError(InterpOp(cntx, "AddFunction"), "COMPILE_ERR")
     ELSE EvalInternal([sha |-> added.sha,
                        keys |-> SubSeq(args, 4, 3 + num_keys),
                        args |-> SubSeq(args, 4 + num_keys, Len(args))], c1)

EvalSha(args, cntx) ==
  LET num_keys == SimpleAtoi(ArgS(args, 2)).val
      sha == ToLower(ArgS(args, 1))
      exists == Exists(cntx, sha)
      body == IF Len(sha) = 40 THEN FindScript(cntx, sha) ELSE nullptr
      c0 == InterpOp(cntx, "Exists")
  IN IF ~exists /\ body = nullptr THEN SendError(c0, kScriptNotFound)
     ELSE EvalInternal([sha |-> sha,
                        keys |-> SubSeq(args, 4, 3 + num_keys),
                        args |-> SubSeq(args, 4 + num_keys, Len(args))],
                       IF exists THEN c0 ELSE CheckAdded(AddFunction(c0, body), sha))

\* The range-for of Exec over exec_body, at element i of the n0 it started with.
\* A command queued meanwhile invalidates the iterators (cntx.ub): the loop then
\* goes on over the elements it started with (no reallocation), or the process
\* dies, or the loop reads the freed elements, whose argv has been moved away,
\* and the handler that is given the empty argv reads past it.
ExecLoop(cntx, rb, i, n0) ==
  IF i > n0 THEN cntx
  ELSE IF cntx.stale
  THEN [Emit(SetExecCmd(cntx, Find(cntx.exec_body[i].descr)),
             Event(cntx, "handler", "Invoke", cntx.exec_body[i].descr, << >>, 0))
          EXCEPT !.status = "crashed"]
  ELSE LET scmd == cntx.exec_body[i]
       IN AfterInvoke(Invoke(Find(scmd.descr), scmd.cmd,
                             SetExecCmd(cntx, Find(scmd.descr))),
                      rb, i, n0)

\* The end of one iteration: break on rb->GetError(), else the next element.
AfterInvoke(c2, rb, i, n0) ==
  IF c2.rb_error THEN c2
  ELSE IF i < n0 /\ Len(c2.exec_body) # n0 /\ c2.ub = "crash"
  THEN [c2 EXCEPT !.status = "crashed"]
  ELSE IF i < n0 /\ Len(c2.exec_body) # n0 /\ c2.ub = "stale"
  THEN ExecLoop([c2 EXCEPT !.stale = TRUE], rb, i + 1, n0)
  ELSE ExecLoop(c2, rb, i + 1, n0)

\* The part of Exec after the loop.
\* Mutant: exec_body.clear() is left out.
AfterLoop_KeepBody(l) ==
  IF l.status = "crashed" THEN l
  ELSE [UnlockMulti(l) EXCEPT !.exec_state = EXEC_INACTIVE]

AfterLoop(l) ==
  IF l.status = "crashed" THEN l
  ELSE [UnlockMulti(l) EXCEPT !.exec_state = EXEC_INACTIVE, !.exec_body = << >>]

Exec(args, cntx) ==
  LET rb == cntx.reply_builder
  IN IF cntx.exec_state = EXEC_INACTIVE THEN SendErrorTo(cntx, rb, kExecWithoutMulti)
     ELSE IF cntx.exec_state = EXEC_ERROR
     THEN SendErrorTo([cntx EXCEPT !.exec_state = EXEC_INACTIVE, !.exec_body = << >>],
                      rb, kExecAbort)
     ELSE IF cntx.exec_body = << >>
     THEN [StartArrayTo(cntx, rb, 0) EXCEPT !.exec_state = EXEC_INACTIVE]
     ELSE AfterLoop(ExecLoop(StartArrayTo(cntx, rb, Len(cntx.exec_body)), rb, 1,
                             Len(cntx.exec_body)))

(***************************************************************************)
(* Service::DispatchMC                                                     *)
(***************************************************************************)
\* MemcacheParser::IsStoreCmd
IsStoreCmd(type) == type \in {"SET", "ADD", "REPLACE", "APPEND", "PREPEND"}

\* cmd.type < MemcacheParser::QUIT, for the types that pass the switch.
IsReadCmd(type) == type = "GET"

\* absl::numbers_internal::FastIntToBuffer
FastIntToBuffer(n) == ToString(n)

\* The name the switch copies into cmd_name, "" for the types it handles itself.
McCmdName(type) ==
  CASE type \in {"REPLACE", "SET", "ADD"} -> "SET"
    [] type = "DELETE" -> "DEL"
    [] type = "INCR" -> "INCRBY"
    [] type = "DECR" -> "DECRBY"
    [] type = "APPEND" -> "APPEND"
    [] type = "PREPEND" -> "PREPEND"
    [] type = "GET" -> "MGET"
    [] type = "QUIT" -> "QUIT"
    [] OTHER -> ""

\* Mutant: the switch leaves store_opt empty.
McStoreOpt_None(cmd) == ""

\* store_opt after the switch ("" while store_opt[0] is 0).
McStoreOpt(cmd) ==
  CASE cmd.type = "REPLACE" -> "XX"
    [] cmd.type = "ADD" -> "NX"
    [] cmd.type \in {"INCR", "DECR"} -> FastIntToBuffer(cmd.delta)
    [] OTHER -> ""

\* The argv DispatchMC builds after the switch.
McArgs(cmd, value) ==
  LET cmd_name == McCmdName(cmd.type)
      store_opt == McStoreOpt(cmd)
      opt == IF store_opt # "" THEN <<store_opt>> ELSE << >>
  IN <<cmd_name>>
     \o (IF cmd.key # "" THEN <<cmd.key>> ELSE << >>)
     \o (IF IsStoreCmd(cmd.type)
         THEN <<value>> \o opt
              \o (IF cmd.expire_ts # 0 /\ cmd_name = "SET"
                  THEN <<"EX", FastIntToBuffer(cmd.expire_ts)>> ELSE << >>)
         ELSE IF IsReadCmd(cmd.type) THEN cmd.keys_ext
         ELSE opt)

\* conn_state.memcache_flag is set for a store command and reset after the dispatch.
SetMemcacheFlag(c, flags) == Emit(c, Event(c, "conn_state", "memcache_flag", "", << >>, flags))

DispatchMC(cmd, value, cntx) ==
  CASE cmd.type = "STATS" -> Emit(cntx, Event(cntx, "server_family", "StatsMC", cmd.key, << >>, 0))
    [] cmd.type = "VERSION" ->
         Emit(cntx, Event(cntx, cntx.reply_builder, "SendDirect", "VERSION", << >>, 0))
    [] McCmdName(cmd.type) = "" ->
         Emit(cntx, Event(cntx, cntx.reply_builder, "SendClientError",
                          "bad command line format", << >>, 0))
    [] OTHER ->
         SetMemcacheFlag(
           DispatchCommand(IF IsStoreCmd(cmd.type) THEN SetMemcacheFlag(cntx, cmd.flags)
                           ELSE cntx,
                           McArgs(cmd, value)),
           0)

(***************************************************************************)
(* The connection as a state machine                                       *)
(***************************************************************************)
NoScript == [present |-> FALSE, keys |-> {}, is_write |-> FALSE]

\* The ConnectionContext (and the thread's script state) a dispatch starts from.
Cntx(ub) ==
  [mask |-> mask, exec_state |-> exec_state, exec_body |-> exec_body,
   script_info |-> script_info, transaction |-> transaction,
   reply_builder |-> reply_builder, rb_error |-> rb_error,
   interp_funcs |-> interp_funcs[thread], script_cache |-> script_cache,
   status |-> status, log |-> << >>, ub |-> ub, stale |-> FALSE]

\* No Memcached command yet.
NoMC == [type |-> "NONE", key |-> "", keys_ext |-> << >>, expire_ts |-> 0, delta |-> 0,
         flags |-> 0, value |-> ""]

\* What the clients of the gate checks send: every validation failure of the
\* dispatcher, MULTI/EXEC, and commands that pass.
Argvs ==
  { <<"MULTI">>, <<"multi">>, <<"MULTI", "x">>, <<"EXEC">>, <<"EXEC", "x">>,
    <<"GET", "k1">>, <<"GET">>, <<"SET", "k1", "v">>, <<"SET", "k1">>,
    <<"MSET", "k1", "v", "k2">>, <<"SELECT", "0">>, <<"DEBUG", "x">>,
    <<"AUTH", "secret">>, <<"NOPE">>, <<"QUIT">>,
    <<"EVAL", sGet1>>, <<"EVAL", sGet1, "x">>, <<"EVAL", sGet1, "2", "k1">> }

\* What the clients of the script checks send.
ScriptArgvs ==
  { <<"MULTI">>, <<"EXEC">>, <<"GET", "k1">>, <<"SELECT", "0">>,
    <<"EVAL", sGet1, "1", "k1">>, <<"EVAL", sGet2, "1", "k1">>,
    <<"EVAL", sGet2, "1", "k2">>, <<"EVAL", sMulti, "0">>, <<"EVAL", " ", "0">>,
    <<"EVALSHA", "AAAAAAAAAAAAAAAAAAAAAAAAAAAAAAAAAAAAAAAA", "1", "k1">>,
    <<"EVALSHA", "abc", "0">> }

\* What an invalidated iterator of Exec's loop may do.
UBOutcomes == {"continue", "crash", "stale"}

Init ==
  /\ gstate = ACTIVE
  /\ is_master = TRUE
  /\ mask \in {{}, {REQ_AUTH}}
  /\ exec_state = EXEC_INACTIVE
  /\ exec_body = << >>
  /\ script_info = NoScript
  /\ transaction = nullptr
  /\ reply_builder \in {"resp", "mc"}
  /\ rb_error = FALSE
  /\ thread = "t1"
  /\ interp_funcs = [t \in Threads |-> {}]
  /\ script_cache = {}
  /\ status = "open"
  /\ last_args = << >>
  /\ log = << >>
  /\ mc_cmd = NoMC
  /\ array_len_ = << >>
  /\ num_elems_ = 0
  /\ explr = << >>
  /\ frames = << >>

\* The connection and the thread after the dispatch returned r.
Returned(r) ==
  /\ r.status = "crashed" \/ Len(r.exec_body) <= MaxBody
  /\ mask' = r.mask
  /\ exec_state' = r.exec_state
  /\ exec_body' = r.exec_body
  /\ script_info' = r.script_info
  /\ transaction' = r.transaction
  /\ reply_builder' = r.reply_builder
  /\ rb_error' = r.rb_error
  /\ interp_funcs' = [interp_funcs EXCEPT ![thread] = r.interp_funcs]
  /\ thread' = thread
  /\ script_cache' = r.script_cache
  /\ status' = r.status
  /\ log' = r.log

\* The connection reads one command and dispatches it.
Dispatch(args, ub) ==
  /\ status = "open"
  /\ Returned(DispatchCommand(Cntx(ub), args))
  /\ last_args' = args
  /\ UNCHANGED <<gstate, is_master, mc_cmd, ReplierVars>>

ConnVars == <<mask, exec_state, exec_body, script_info, transaction, reply_builder,
              rb_error, thread, interp_funcs, script_cache, status, last_args, log,
              mc_cmd, ReplierVars>>

\* The global state changes: loading starts or ends, Service::Shutdown.
SetGlobalState(g) ==
  /\ g # gstate
  /\ gstate # SHUTTING_DOWN
  /\ gstate' = g
  /\ UNCHANGED is_master
  /\ UNCHANGED ConnVars

\* The server becomes a replica, or a master again.
SetMaster ==
  /\ is_master' = ~is_master
  /\ UNCHANGED gstate
  /\ UNCHANGED ConnVars

UBChoice(args) == IF ToUpper(args[1]) = "EXEC" THEN UBOutcomes ELSE {"continue"}

DispatchAny == \E args \in Argvs : \E ub \in UBChoice(args) : Dispatch(args, ub)

GlobalStateChanges == \E g \in {ACTIVE, LOADING, SHUTTING_DOWN} : SetGlobalState(g)

Next == DispatchAny \/ GlobalStateChanges \/ SetMaster

\* The gates: a server with requirepass set, so a connection starts with REQ_AUTH.
InitGates == Init /\ mask = {REQ_AUTH} /\ reply_builder = "resp"

Spec == InitGates /\ [][Next]_vars

\* Scripts: a server that is not loading, and a connection that need not log in.
InitScript == Init /\ mask = {} /\ reply_builder = "resp"

DispatchScript == \E args \in ScriptArgvs : \E ub \in UBChoice(args) : Dispatch(args, ub)

NextScript == DispatchScript \/ SetMaster

SpecScript == InitScript /\ [][NextScript]_vars

\* The connection goes away and the next one is accepted on thread t.
NewConnection(t) ==
  /\ status # "crashed"
  /\ thread' = t
  /\ mask' = mask \ {AUTHENTICATED}
  /\ exec_state' = EXEC_INACTIVE
  /\ exec_body' = << >>
  /\ script_info' = NoScript
  /\ transaction' = nullptr
  /\ reply_builder' = "resp"
  /\ rb_error' = FALSE
  /\ status' = "open"
  /\ last_args' = << >>
  /\ log' = << >>
  /\ UNCHANGED <<gstate, is_master, interp_funcs, script_cache, mc_cmd, ReplierVars>>

\* What the clients of the script cache checks send.
CacheArgvs ==
  { <<"MULTI">>, <<"EXEC">>,
    <<"EVAL", sGet1, "1", "k1">>, <<"EVAL", sGet1, "0">>, <<"EVAL", sGet2, "1", "k2">>,
    <<"EVALSHA", "AAAAAAAAAAAAAAAAAAAAAAAAAAAAAAAAAAAAAAAA", "1", "k1">>,
    <<"EVALSHA", "aaaaaaaaaaaaaaaaaaaaaaaaaaaaaaaaaaaaaaaa", "0">>,
    <<"EVALSHA", "2222222222222222222222222222222222222222", "1", "k2">>,
    <<"EVALSHA", "abc", "0">>,
    <<"EVALSHA", "zzzzzzzzzzzzzzzzzzzzzzzzzzzzzzzzzzzzzzzz", "0">> }

DispatchCache == \E args \in CacheArgvs : \E ub \in UBChoice(args) : Dispatch(args, ub)

Accept == \E t \in Threads : NewConnection(t)

NextCache == DispatchCache \/ Accept

\* The Memcached commands a parser hands to DispatchMC.
McTypes ==
  {"SET", "ADD", "REPLACE", "APPEND", "PREPEND", "GET", "GETS", "QUIT", "STATS",
   "VERSION", "DELETE", "INCR", "DECR"}

\* The types the parser gives no key.
McKeyless == {"QUIT", "STATS", "VERSION"}

McCommands ==
  {cmd \in [type : McTypes, key : {"", "k1", "k2"},
            keys_ext : {<< >>, <<"k2">>, <<"k2", "k3">>},
            expire_ts : {0, 60}, delta : {0, 5}, flags : {0, 7}, value : {"v"}] :
     (cmd.key = "") <=> (cmd.type \in McKeyless)}

\* A Memcached connection reads one command and hands it to DispatchMC.
DispatchMCStep(cmd) ==
  /\ status = "open"
  /\ Returned(DispatchMC(cmd, cmd.value, Cntx("continue")))
  /\ last_args' = (IF McCmdName(cmd.type) = "" THEN << >> ELSE McArgs(cmd, cmd.value))
  /\ mc_cmd' = cmd
  /\ UNCHANGED <<gstate, is_master, ReplierVars>>

DispatchAnyMC == \E cmd \in McCommands : DispatchMCStep(cmd)

NextMC == DispatchAnyMC \/ SetMaster

InitMC == Init /\ mask = {} /\ reply_builder = "mc"

\* A Memcached connection.
SpecMC == InitMC /\ [][NextMC]_vars

\* The script cache: connections come and go on two threads of a server that is
\* not loading.
SpecCache == InitScript /\ [][NextCache]_vars

(***************************************************************************)
(* Properties                                                              *)
(***************************************************************************)
\* A step that dispatches one command of the client (last_args' is its argv).
DispatchStep == UNCHANGED <<gstate, is_master>>

Upper(args) == [args EXCEPT ![1] = ToUpper(@)]

Idx(l) == 1 .. Len(l)

\* The log positions of the events named ev among the positions S.
EventsIn(l, S, ev) == {k \in S : l[k].ev = ev}

IsReply(e) ==
  e.ev \in {"SendError", "SendSimpleString", "SendNull", "SendBulkString", "StartArray"}

\* The handlers a dispatch invoked, the replies it wrote, the errors among them.
Invokes(l) == {i \in Idx(l) : l[i].ev = "Invoke"}

RepliesOf(l) == {i \in Idx(l) : IsReply(l[i])}

ErrorTexts(l) == {l[i].a : i \in {j \in Idx(l) : l[j].ev = "SendError"}}

RegisteredNames == {cid.name : cid \in registry_}

\* The errors of the dispatcher's validation, before a command is queued or run.
ValidationErrorTexts ==
  {kUnknownCmd, kNoAuth, kNoScriptCmd, kReadOnly, kInvalidIntErr, kTooManyKeys,
   kAdminUnderMulti, kSelectUnderMulti, GStateError(LOADING), GStateError(SHUTTING_DOWN)}
  \cup {WrongNumArgsError(n) : n \in RegisteredNames}

FailedValidationInCollect(l) ==
  \E i \in Idx(l) : /\ l[i].ev = "SendError"
                    /\ l[i].es = EXEC_COLLECT
                    /\ l[i].a \in ValidationErrorTexts

ExecReachedHandler(l) == \E i \in Idx(l) : l[i].ev = "Invoke" /\ l[i].a = "EXEC"

\* C1: once a command dispatched while exec_state is EXEC_COLLECT has failed the
\* dispatcher's validation, the connection stays poisoned (EXEC_ERROR) through
\* every further command that is not an EXEC reaching its handler, and that EXEC
\* replies -EXECABORT, empties exec_body, returns to EXEC_INACTIVE and invokes
\* the handler of no queued command.
C1_ExecAbortAfterFailedValidation ==
  [][DispatchStep =>
       /\ FailedValidationInCollect(log') => exec_state' = EXEC_ERROR
       /\ (exec_state = EXEC_ERROR /\ ~ExecReachedHandler(log')) => exec_state' = EXEC_ERROR
       /\ (exec_state = EXEC_ERROR /\ ExecReachedHandler(log')) =>
            /\ ErrorTexts(log') = {kExecAbort}
            /\ exec_body' = << >>
            /\ exec_state' = EXEC_INACTIVE
            /\ \A i \in Invokes(log') : log'[i].a = "EXEC"]_vars

\* C4: a dispatch of MULTI or EXEC never changes exec_state to EXEC_ERROR.
C4_TransCmdsNeverPoison ==
  [][(DispatchStep /\ ToUpper(last_args'[1]) \in {"MULTI", "EXEC"} /\ exec_state # EXEC_ERROR)
       => exec_state' # EXEC_ERROR]_vars

\* The arguments of a dispatched argv that lie in the key range of its command.
KeyArgs(args) ==
  LET k == DetermineKeys(Find(args[1]), args)
  IN {ArgS(args, i) : i \in k.start .. k.end - 1}

\* C5: a command a running script dispatches with a key outside the declared
\* KEYS is answered 'script tried accessing undeclared key' and nothing else
\* happens for it, in scripts run at top level and in scripts run by EXEC.
C5_ScriptKeyDiscipline ==
  [][DispatchStep =>
       \A i \in Idx(log') :
         (log'[i].ev = "RecordCmd" /\ log'[i].us /\ KeyArgs(log'[i].args) \ log'[i].keys # {})
           => /\ i < Len(log')
              /\ log'[i + 1].ev = "SendError"
              /\ log'[i + 1].a = kUndeclaredKey]_vars

\* The command a dispatch step is about.
Cmd(args) == ToUpper(args[1])

CidOf(args) == Find(Cmd(args))

OneReply(l) == Cardinality(RepliesOf(l)) = 1

\* C2: under MULTI (exec_state not EXEC_INACTIVE) a command other than MULTI and
\* EXEC that passes validation (is answered no error) is appended to the end of
\* exec_body as its CommandId and argv, is answered QUEUED and nothing else, and
\* its handler does not run; one that fails validation is not appended.
C2_Queueing ==
  [][(DispatchStep /\ exec_state # EXEC_INACTIVE /\ Cmd(last_args') \notin {"MULTI", "EXEC"})
       => /\ Invokes(log') = {}
          /\ IF ErrorTexts(log') = {}
             THEN /\ exec_body' = Append(exec_body, [descr |-> Cmd(last_args'),
                                                     cmd |-> Upper(last_args')])
                  /\ OneReply(log')
                  /\ log'[Len(log')].ev = "SendSimpleString"
                  /\ log'[Len(log')].a = "QUEUED"
                  /\ log'[Len(log')].sink = "resp"
             ELSE exec_body' = exec_body]_vars

C2_Witness ==
  /\ exec_state = EXEC_COLLECT
  /\ Len(exec_body) = 2
  /\ exec_body[1].descr = "GET"
  /\ exec_body[2] = [descr |-> "SET", cmd |-> <<"SET", "k1", "v">>]
  /\ last_args = <<"SET", "k1", "v">>
  /\ log[Len(log)].a = "QUEUED"

NoSelectNoAdmin(body) ==
  \A i \in Idx(body) : /\ body[i].descr # "SELECT"
                       /\ "ADMIN" \notin Find(body[i].descr).opt_mask

\* C3: exec_body never holds a SELECT or an ADMIN command: dispatched under
\* MULTI, such a command is answered an error, is not appended and not run, and
\* exec_state becomes EXEC_ERROR.
C3_NoSelectNoAdminQueued ==
  [][/\ NoSelectNoAdmin(exec_body')
     /\ (/\ DispatchStep
         /\ exec_state # EXEC_INACTIVE
         /\ (Cmd(last_args') = "SELECT" \/ "ADMIN" \in CidOf(last_args').opt_mask))
          => /\ ErrorTexts(log') # {}
             /\ Invokes(log') = {}
             /\ exec_body' = exec_body
             /\ exec_state' = EXEC_ERROR]_vars

C3_Witness ==
  /\ last_args = <<"SELECT", "0">>
  /\ ErrorTexts(log) = {kSelectUnderMulti}
  /\ exec_state = EXEC_ERROR
  /\ exec_body # << >>

\* C6: every reply written while a script runs (by a dispatch nested in
\* CallFromScript) goes to the InterpreterReplier and none to the client wire,
\* every other reply goes to the wire, and when the top-level command returns
\* the connection's reply builder is the RESP builder again.
C6_ReplyRouting ==
  [][DispatchStep =>
       /\ \A i \in RepliesOf(log') : log'[i].sink = IF log'[i].us THEN "interp" ELSE "resp"
       /\ reply_builder' = "resp"]_vars

C6_Witness ==
  /\ reply_builder = "resp"
  /\ \E i \in Idx(log) : log[i].sink = "interp" /\ log[i].a = "QUEUED"
  /\ \E i \in Idx(log) : log[i].sink = "interp" /\ log[i].a = kNoScriptCmd
  /\ \E i \in Idx(log) : log[i].a = kRunError /\ log[i].sink = "resp"

\* The arity rule, as the claim states it.
ArityMismatch(cid, n) ==
  \/ (cid.arity > 0 /\ n # cid.arity)
  \/ (cid.arity < 0 /\ n < 0 - cid.arity)

Unauthenticated == REQ_AUTH \in mask /\ AUTHENTICATED \notin mask

\* The error of the gates DispatchCommand checks before the arity, if one refuses
\* a top-level command, else `otherwise`.
GateError(args, otherwise) ==
  IF gstate # ACTIVE THEN GStateError(gstate)
  ELSE IF Unauthenticated /\ Cmd(args) # "AUTH" THEN kNoAuth
  ELSE IF ~is_master /\ "WRITE" \in CidOf(args).opt_mask THEN kReadOnly
  ELSE otherwise

\* C7 as stated: a registered command with a wrong number of arguments is
\* answered the wrong-number-of-arguments error, is not run and not queued.
C7_ArityAsStated ==
  [][(/\ DispatchStep
      /\ Cmd(last_args') \in RegisteredNames
      /\ ArityMismatch(CidOf(last_args'), Len(last_args')))
       => /\ ErrorTexts(log') = {WrongNumArgsError(Cmd(last_args'))}
          /\ Invokes(log') = {}
          /\ exec_body' = exec_body]_vars

\* C7 amended: such a command is answered exactly one error, is not run and not
\* queued; the error is the wrong-number-of-arguments error unless a gate checked
\* before the arity (global state, auth, replica) refuses the command first.
C7_Arity ==
  [][(/\ DispatchStep
      /\ Cmd(last_args') \in RegisteredNames
      /\ ArityMismatch(CidOf(last_args'), Len(last_args')))
       => /\ ErrorTexts(log') =
               {GateError(last_args', WrongNumArgsError(Cmd(last_args')))}
          /\ OneReply(log')
          /\ Invokes(log') = {}
          /\ exec_body' = exec_body]_vars

C7_Witness ==
  /\ last_args = <<"MULTI", "x">>
  /\ ErrorTexts(log) = {WrongNumArgsError("MULTI")}
  /\ exec_body # << >>

\* C8 as stated: before authentication every command other than AUTH is answered
\* -NOAUTH and is neither run nor queued; after it the auth gate refuses nothing.
C8_AuthGateAsStated ==
  [][DispatchStep =>
       /\ (Unauthenticated /\ Cmd(last_args') \in RegisteredNames \ {"AUTH"})
            => /\ ErrorTexts(log') = {kNoAuth}
               /\ Invokes(log') = {}
               /\ exec_body' = exec_body
       /\ AUTHENTICATED \in mask => kNoAuth \notin ErrorTexts(log')]_vars

\* C8 amended: before authentication no command other than AUTH is run or
\* queued, and the connection stays unauthenticated; a registered one is answered
\* -NOAUTH while the global state is ACTIVE (in LOADING and SHUTTING_DOWN the
\* global-state refusal comes first); after authentication the gate refuses nothing.
C8_AuthGate ==
  [][DispatchStep =>
       /\ (Unauthenticated /\ Cmd(last_args') # "AUTH")
            => /\ Invokes(log') = {}
               /\ exec_body' = exec_body
               /\ mask' = mask
               /\ ErrorTexts(log') # {}
               /\ (gstate = ACTIVE /\ Cmd(last_args') \in RegisteredNames)
                    => ErrorTexts(log') = {kNoAuth}
       /\ AUTHENTICATED \in mask => kNoAuth \notin ErrorTexts(log')]_vars

C8_Witness ==
  /\ Unauthenticated
  /\ last_args = <<"GET", "k1">>
  /\ ErrorTexts(log) = {kNoAuth}

\* C9 as stated: on a replica a WRITE command is answered -READONLY, is neither
\* run nor queued and leaves exec_state, exec_body and the transaction unchanged.
C9_ReplicaWritesAsStated ==
  [][(DispatchStep /\ ~is_master /\ "WRITE" \in CidOf(last_args').opt_mask)
       => /\ ErrorTexts(log') = {kReadOnly}
          /\ Invokes(log') = {}
          /\ exec_body' = exec_body
          /\ exec_state' = exec_state
          /\ transaction' = transaction]_vars

\* C9 amended: on a replica a WRITE command is answered one error, -READONLY
\* unless the global-state or the auth gate refuses it first, is neither run nor
\* queued and leaves exec_body and the transaction unchanged; exec_state is
\* unchanged too, except that EXEC_COLLECT becomes EXEC_ERROR.
C9_ReplicaWrites ==
  [][(DispatchStep /\ ~is_master /\ "WRITE" \in CidOf(last_args').opt_mask)
       => /\ ErrorTexts(log') = {GateError(last_args', kReadOnly)}
          /\ OneReply(log')
          /\ Invokes(log') = {}
          /\ exec_body' = exec_body
          /\ exec_state' = IF exec_state = EXEC_COLLECT THEN EXEC_ERROR ELSE exec_state
          /\ transaction' = transaction]_vars

C9_Witness ==
  /\ ~is_master
  /\ last_args = <<"SET", "k1", "v">>
  /\ ErrorTexts(log) = {kReadOnly}
  /\ exec_state = EXEC_ERROR
  /\ exec_body # << >>

\* C10: in LOADING and SHUTTING_DOWN a command without the LOADING flag is
\* answered 'Can not execute during <state>' and is not run, and a command with
\* the LOADING flag (MULTI, EXEC) is not refused by this gate.
C10_GlobalStateGate ==
  [][(DispatchStep /\ gstate \in {LOADING, SHUTTING_DOWN}
        /\ Cmd(last_args') \in RegisteredNames)
       => IF "LOADING" \notin CidOf(last_args').opt_mask
          THEN ErrorTexts(log') = {GStateError(gstate)} /\ Invokes(log') = {}
          ELSE GStateError(gstate) \notin ErrorTexts(log')]_vars

\* A step of SpecCache that dispatches one command of the client.
CacheDispatchStep == DispatchStep /\ last_args' # << >> /\ thread' = thread

\* The replies of a dispatch, to the client and to the script, in order.
Outcome(l) == SelectSeq(l, IsReply)

\* The EVAL of the body whose sha an EVALSHA names, with the same KEYS and ARGV.
EvalOf(args) ==
  <<"EVAL", BodyOfSha(ToLower(args[2]))>> \o SubSeq(args, 3, Len(args))

\* The bodies that have compiled on some thread.
Compiled == UNION {interp_funcs[t] : t \in Threads}

\* C11: once an EVAL has compiled body B on some thread, an
\* EVALSHA of that sha on any connection of any thread does not reply NOSCRIPT,
\* fails no CHECK, and replies and leaves the connection as the EVAL of B with
\* the same KEYS and ARGV would; a queued EVALSHA run by EXEC finds it as well.
C11_CacheRoundTrip ==
  [][CacheDispatchStep =>
       /\ (\A i \in Invokes(log') :
             (log'[i].a = "EVALSHA" /\ log'[i].args # << >>)
               => ToLower(log'[i].args[2]) \in Compiled)
            => /\ kScriptNotFound \notin ErrorTexts(log')
               /\ EventsIn(log', Idx(log'), "CheckFailed") = {}
       /\ (Cmd(last_args') = "EVALSHA" /\ ToLower(last_args'[2]) \in Compiled)
            => LET r == DispatchCommand(Cntx("continue"), EvalOf(last_args'))
               IN /\ Outcome(log') = Outcome(r.log)
                  /\ exec_state' = r.exec_state
                  /\ Len(exec_body') = Len(r.exec_body)
                  /\ transaction' = r.transaction
                  /\ script_info' = r.script_info
                  /\ status' = r.status]_vars

\* An EVALSHA on thread t2, whose interpreter has just been given the body that
\* an EVAL compiled on thread t1.
C11_Witness ==
  /\ thread = "t2"
  /\ last_args # << >>
  /\ Cmd(last_args) = "EVALSHA"
  /\ "aaaaaaaaaaaaaaaaaaaaaaaaaaaaaaaaaaaaaaaa" \in interp_funcs["t1"]
  /\ \E i \in Idx(log) : log[i].ev = "Interp" /\ log[i].a = "AddFunction"
  /\ \E i \in Idx(log) : log[i].ev = "SendBulkString" /\ log[i].sink = "resp"

\* The events of the handler invoked at log position i: those up to the next
\* handler that is invoked outside a script.
NextInvoke(l, i) ==
  LET later == {j \in Idx(l) : j > i /\ l[j].ev = "Invoke" /\ ~l[j].us}
  IN IF later = {} THEN Len(l) + 1 ELSE CHOOSE j \in later : \A k \in later : j <= k

HandlerEvents(l, i) == (i + 1) .. (NextInvoke(l, i) - 1)

Malformed(sha) == Len(sha) # 40 \/ ~IsSHA(sha)

C13_TransactionScoped ==
  status # "crashed" => (transaction = nullptr /\ script_info = NoScript)

\* A top-level EVAL with KEYS has returned: its transaction was scheduled, the
\* script ran a command under it, and the pointer is null again.
C13_Witness ==
  /\ last_args = <<"EVAL", sGet1, "1", "k1">>
  /\ \E i \in Idx(log) : log[i].ev = "Schedule"
  /\ \E i \in Idx(log) : log[i].ev = "SetExecCmd" /\ log[i].us
  /\ transaction = nullptr

\* The argv of the Memcached mapping table, << >> for the types answered without
\* a dispatch.
McTable(cmd) ==
  CASE cmd.type \in {"SET", "ADD", "REPLACE"} ->
         <<"SET", cmd.key, cmd.value>>
         \o (IF cmd.type = "ADD" THEN <<"NX">> ELSE IF cmd.type = "REPLACE" THEN <<"XX">>
             ELSE << >>)
         \o (IF cmd.expire_ts # 0 THEN <<"EX", ToString(cmd.expire_ts)>> ELSE << >>)
    [] cmd.type \in {"APPEND", "PREPEND"} -> <<cmd.type, cmd.key, cmd.value>>
    [] cmd.type = "DELETE" -> <<"DEL", cmd.key>>
    [] cmd.type = "INCR" -> <<"INCRBY", cmd.key, ToString(cmd.delta)>>
    [] cmd.type = "DECR" -> <<"DECRBY", cmd.key, ToString(cmd.delta)>>
    [] cmd.type = "GET" -> <<"MGET", cmd.key>> \o cmd.keys_ext
    [] cmd.type = "QUIT" -> <<"QUIT">>
    [] OTHER -> << >>

\* The argvs a step handed to DispatchCommand from outside a script, in order.
Dispatched(l) == SelectSeq(l, LAMBDA e : e.ev = "RecordCmd" /\ ~e.us)

\* C14: DispatchMC dispatches the argv of the mapping table, once, and for STATS,
\* VERSION and unknown types does not call DispatchCommand.
C14_MemcachedTranslation ==
  [][mc_cmd' # mc_cmd =>
       IF McTable(mc_cmd') = << >> THEN Dispatched(log') = << >>
       ELSE /\ Len(Dispatched(log')) = 1
            /\ Dispatched(log')[1].args = McTable(mc_cmd')]_vars

\* ADD with an expiry was dispatched as SET key value NX EX ttl and reached the
\* SET handler.
C14_Witness ==
  /\ mc_cmd.type = "ADD"
  /\ mc_cmd.expire_ts = 60
  /\ last_args = <<"SET", "k1", "v", "NX", "EX", "60">>
  /\ \E i \in Invokes(log) : log[i].a = "SET" /\ log[i].args = last_args

\* The events of the EvalInternal entered at log position i: up to its return.
RunOf(l, i) ==
  LET j == CHOOSE j \in Idx(l) : /\ j > i
                                 /\ l[j].ev = "Leave"
                                 /\ \A k \in (i + 1) .. (j - 1) : l[k].ev # "Leave"
  IN (i + 1) .. j

\* C15: an EvalInternal run calls Schedule exactly when it was given KEYS and
\* reaches the script's execution, then calls UnlockMulti exactly once, after the
\* script has returned (with or without an error), and script_info is absent
\* when it returns; a run that returns early calls neither and creates no
\* script_info.
C15_ScriptLockLifecycle ==
  [][DispatchStep =>
       \A i \in EventsIn(log', Idx(log'), "Enter") :
         LET S == RunOf(log', i)
             reached == \E k \in S : log'[k].ev = "Interp" /\ log'[k].a = "RunFunction"
             locks == IF reached /\ log'[i].args # << >> THEN 1 ELSE 0
         IN /\ Cardinality(EventsIn(log', S, "Schedule")) = locks
            /\ Cardinality(EventsIn(log', S, "UnlockMulti")) = locks
            /\ \A u \in EventsIn(log', S, "UnlockMulti") :
                 /\ \A k \in EventsIn(log', S, "Schedule") : k < u
                 /\ \A k \in S : (log'[k].us \/ (log'[k].ev = "Interp" /\ log'[k].a = "RunFunction"))
                                   => k < u
            /\ \A k \in EventsIn(log', S, "Leave") : ~log'[k].us
            /\ ~reached => \A k \in S : ~log'[k].us]_vars

\* An EVAL with KEYS whose script failed: Schedule, the error, UnlockMulti.
C15_Witness ==
  /\ last_args = <<"EVAL", sGet2, "1", "k2">>
  /\ kRunError \in ErrorTexts(log)
  /\ EventsIn(log, Idx(log), "Schedule") # {}
  /\ EventsIn(log, Idx(log), "UnlockMulti") # {}
  /\ script_info = NoScript

\* A top-level EXEC that finds exec_state EXEC_COLLECT and runs the queue.
ExecRuns ==
  /\ DispatchStep
  /\ Cmd(last_args') = "EXEC"
  /\ exec_state = EXEC_COLLECT
  /\ ExecReachedHandler(log')

\* The handlers EXEC invoked for queued commands, in order (those a script
\* invokes through the redis-call hook run under script_info and are left out).
QueuedInvokes(l) == Tail(SelectSeq(l, LAMBDA e : e.ev = "Invoke" /\ ~e.us))

\* C16: EXEC invokes the handlers of the queued commands in the order they were
\* queued, each at most once and with the argv that was queued, all of them
\* unless the reply builder reports an error, and none after the first handler
\* whose reply is an error.
C16_ExecOrder ==
  [][ExecRuns =>
       LET inv == QueuedInvokes(log')
       IN /\ Len(inv) <= Len(exec_body)
          /\ \A k \in Idx(inv) : /\ inv[k].a = exec_body[k].descr
                                 /\ inv[k].args = exec_body[k].cmd
          /\ (~rb_error' /\ status' # "crashed") => Len(inv) = Len(exec_body)
          /\ \A i \in EventsIn(log', Idx(log'), "SendError") :
               (log'[i].sink = "resp" /\ ~log'[i].us)
                 => \A j \in Invokes(log') : ~log'[j].us => j < i]_vars

\* C17: an EXEC that runs the queue calls UnlockMulti on the transaction exactly
\* once, after the last handler it invoked has replied, also when exec_body is
\* empty, when the loop stops on an error and when a queued EVAL has KEYS.
C17_ExecUnlock ==
  [][(ExecRuns /\ status' # "crashed") =>
       LET U == EventsIn(log', Idx(log'), "UnlockMulti")
       IN /\ Cardinality(U) = 1
          /\ \A u \in U : \A j \in Invokes(log') \cup RepliesOf(log') : j < u]_vars

\* The replies EXEC's queued handlers wrote to the client after StartArray.
Elements(l) == {i \in RepliesOf(l) : l[i].ev # "StartArray" /\ l[i].sink = "resp" /\ ~l[i].us}

\* C18: an EXEC that runs the queue writes, after StartArray(n), exactly n element
\* replies, n being the number of commands queued when it started, also when a
\* queued command replies with an error.
C18_ExecArrayFraming ==
  [][(ExecRuns /\ status' # "crashed") =>
       /\ \E i \in Idx(log') : log'[i].ev = "StartArray" /\ log'[i].n = Len(exec_body)
       /\ Cardinality(Elements(log')) = Len(exec_body)]_vars

--------------------------------------------------------------------------
\* InterpreterReplier: the reply builder a script's redis.call writes to. It
\* forwards every reply to an ObjectExplorer and tracks the arrays that are open.

MaxLen == 2      \* longest array the replier's caller opens
MaxDepth == 2    \* deepest nesting of the caller's arrays

ServiceVars == <<gstate, is_master, mask, exec_state, exec_body, script_info, transaction,
                 reply_builder, rb_error, thread, interp_funcs, script_cache, status,
                 last_args, log, mc_cmd>>

\* The replier's members, and what its explorer has been told so far.
Replier == [array_len_ |-> array_len_, num_elems_ |-> num_elems_, explr |-> explr]

\* explr_->On...(): one call of the ObjectExplorer.
On(r, ev, n) == [r EXCEPT !.explr = Append(@, [ev |-> ev, n |-> n])]

\* One round of PostItem's while loop: num_elems_ = back().first; OnArrayEnd(); pop_back().
PopFrame(r) ==
  [On(r, "OnArrayEnd", 0) EXCEPT !.num_elems_ = r.array_len_[Len(r.array_len_)].first,
                                 !.array_len_ = SubSeq(@, 1, Len(@) - 1)]

RECURSIVE PostItemLoop(_)
PostItemLoop(r) ==
  IF r.array_len_ = << >> THEN r
  ELSE IF r.num_elems_ = r.array_len_[Len(r.array_len_)].second THEN PostItemLoop(PopFrame(r))
  ELSE r

\* InterpreterReplier::PostItem (the DCHECK_EQ is compiled out of release builds).
PostItem(r) ==
  IF r.array_len_ = << >> THEN [r EXCEPT !.num_elems_ = @ + 1]
  ELSE PostItemLoop([r EXCEPT !.num_elems_ = @ + 1])

InterpSendSimpleString(r) ==
  PostItem(On(r, IF r.array_len_ = << >> THEN "OnStatus" ELSE "OnString", 0))

RECURSIVE OnStrings(_, _)
OnStrings(r, count) == IF count = 0 THEN r ELSE OnStrings(On(r, "OnString", 0), count - 1)

InterpSendSimpleStrArr(r, count) ==
  PostItem(On(OnStrings(On(r, "OnArrayStart", count), count), "OnArrayEnd", 0))

InterpSendNullArray(r) == PostItem(InterpSendSimpleStrArr(r, 0))

InterpSendStringArr(r, count) == PostItem(InterpSendSimpleStrArr(r, count))

InterpSendNull(r) == PostItem(On(r, "OnNil", 0))

InterpSendLong(r) == PostItem(On(r, "OnInt", 0))

InterpSendDouble(r) == PostItem(On(r, "OnDouble", 0))

InterpSendBulkString(r) == PostItem(On(r, "OnString", 0))

InterpStartArray(r, len) ==
  IF len = 0 THEN PostItem(On(On(r, "OnArrayStart", 0), "OnArrayEnd", 0))
  ELSE [On(r, "OnArrayStart", len) EXCEPT
          !.array_len_ = Append(@, [first |-> r.num_elems_ + 1, second |-> len]),
          !.num_elems_ = 0]

\* The caller's side: it opens an array and then sends exactly len items. frames
\* holds, per array the caller has open, the number of items it still has to send.
RECURSIVE ItemSent(_)
ItemSent(f) ==
  IF f = << >> THEN f
  ELSE IF f[Len(f)] = 1 THEN ItemSent(SubSeq(f, 1, Len(f) - 1))
  ELSE [f EXCEPT ![Len(f)] = @ - 1]

\* The caller sends one item of the array it has open.
SendItem(r) ==
  /\ frames # << >>
  /\ frames' = ItemSent(frames)
  /\ array_len_' = r.array_len_
  /\ num_elems_' = r.num_elems_
  /\ explr' = r.explr
  /\ UNCHANGED ServiceVars

CallStartArray(len) ==
  /\ \/ frames = << >> /\ explr = << >>
     \/ frames # << >> /\ (len = 0 \/ Len(frames) < MaxDepth)
  /\ frames' = IF len = 0 THEN ItemSent(frames) ELSE Append(frames, len)
  /\ array_len_' = InterpStartArray(Replier, len).array_len_
  /\ num_elems_' = InterpStartArray(Replier, len).num_elems_
  /\ explr' = InterpStartArray(Replier, len).explr
  /\ UNCHANGED ServiceVars

CallSendSimpleString == SendItem(InterpSendSimpleString(Replier))

CallSendBulkString == SendItem(InterpSendBulkString(Replier))

CallSendLong == SendItem(InterpSendLong(Replier))

CallSendDouble == SendItem(InterpSendDouble(Replier))

CallSendNull == SendItem(InterpSendNull(Replier))

CallSendNullArray == SendItem(InterpSendNullArray(Replier))

CallSendStringArr(count) == SendItem(InterpSendStringArr(Replier, count))

CallSendSimpleStrArr(count) == SendItem(InterpSendSimpleStrArr(Replier, count))

\* CallFromScript builds a fresh InterpreterReplier for every redis.call.
NewReplier ==
  /\ frames = << >>
  /\ explr # << >>
  /\ array_len_' = << >>
  /\ num_elems_' = 0
  /\ explr' = << >>
  /\ UNCHANGED <<frames, ServiceVars>>

NextReplier ==
  \/ \E len \in 0..MaxLen : CallStartArray(len)
  \/ CallSendSimpleString
  \/ CallSendBulkString
  \/ CallSendLong
  \/ CallSendDouble
  \/ CallSendNull
  \/ CallSendNullArray
  \/ \E count \in 0..MaxLen : CallSendStringArr(count)
  \/ \E count \in 0..MaxLen : CallSendSimpleStrArr(count)
  \/ NewReplier

SpecReplier == InitScript /\ [][NextReplier]_vars

\* What the explorer's events leave open: per array that was started and not
\* ended, the elements it still lacks; <<-1>> when the events are not properly
\* nested, an array is ended before its last element or goes on after it.
Bad == <<-1>>

ElementSeen(st) ==
  IF st = << >> THEN st
  ELSE IF st[Len(st)] = 0 THEN Bad
  ELSE [st EXCEPT ![Len(st)] = @ - 1]

AfterEvent(st, e) ==
  IF st = Bad THEN Bad
  ELSE IF e.ev = "OnArrayStart"
  THEN (IF st # << >> /\ st[Len(st)] = 0 THEN Bad ELSE Append(st, e.n))
  ELSE IF e.ev = "OnArrayEnd"
  THEN (IF st = << >> \/ st[Len(st)] # 0 THEN Bad ELSE ElementSeen(SubSeq(st, 1, Len(st) - 1)))
  ELSE ElementSeen(st)

RECURSIVE OpenArrays(_, _, _)
OpenArrays(ex, i, st) == IF i > Len(ex) THEN st ELSE OpenArrays(ex, i + 1, AfterEvent(st, ex[i]))

\* C19: after StartArray(len) and any part of its len items, the explorer's
\* events are properly nested, every array that got its last item has been
\* ended right after it, every item counted as one element (the arrays the
\* explorer has open lack exactly the items the caller still has to send), and
\* the replier's frame stack has one frame per array the caller has open, so it
\* is empty once the outermost array is complete.
C19_ArrayTracking ==
  /\ OpenArrays(explr, 1, << >>) = frames
  /\ Len(array_len_) = Len(frames)

--------------------------------------------------------------------------
\* The connection holds the interpreter's lock at event i of l: a Lock precedes
\* it with no Unlock in between.
LockHeld(l, i) ==
  \E j \in 1..(i - 1) : /\ l[j].ev = "Lock"
                        /\ \A k \in (j + 1)..(i - 1) : l[k].ev # "Unlock"

\* C20: every operation Eval, EvalSha and EvalInternal perform on the thread's
\* interpreter is performed while the connection holds the interpreter's lock.
C20_InterpreterLock ==
  \A i \in Idx(log) : log[i].ev = "Interp" => LockHeld(log, i)

--------------------------------------------------------------------------
\* C21: between top-level commands, exec_state = EXEC_INACTIVE implies that
\* exec_body is empty; a command is appended only while exec_state is not
\* EXEC_INACTIVE, exec_state becomes EXEC_COLLECT only through MULTI from
\* EXEC_INACTIVE (so never from EXEC_ERROR), and it returns to EXEC_INACTIVE only
\* through EXEC, which empties exec_body.
C21_InactiveMeansEmpty ==
  /\ [](exec_state = EXEC_INACTIVE => exec_body = << >>)
  /\ [][DispatchStep =>
          /\ Len(exec_body') > Len(exec_body) => exec_state # EXEC_INACTIVE
          /\ (exec_state' = EXEC_COLLECT /\ exec_state # EXEC_COLLECT)
               => (Cmd(last_args') = "MULTI" /\ exec_state = EXEC_INACTIVE)
          /\ (exec_state' = EXEC_INACTIVE /\ exec_state # EXEC_INACTIVE)
               => (Cmd(last_args') = "EXEC" /\ exec_body' = << >>)]_vars

\* An EXEC has run a queue of two commands and left the connection inactive.
C21_Witness ==
  /\ last_args # << >>
  /\ Cmd(last_args) = "EXEC"
  /\ exec_state = EXEC_INACTIVE
  /\ exec_body = << >>
  /\ \E i \in Idx(log) : log[i].ev = "StartArray" /\ log[i].n = 2 /\ log[i].sink = "resp"

\* The commands a dispatch appended to exec_body: each append replies QUEUED.
Appends(l) == {i \in Idx(l) : l[i].ev = "SendSimpleString" /\ l[i].a = "QUEUED"}

\* C22: while EXEC runs its queue no command is appended to exec_body; a command
\* that a queued EVAL/EVALSHA issues through the redis-call hook is executed or
\* rejected and never answered QUEUED.
C22_BodyStableDuringExec ==
  [][ExecRuns => Appends(log') = {}]_vars

--------------------------------------------------------------------------
\* Scripts that write key/value pairs: what their clients send.
KeyArgvs ==
  { <<"EVAL", sMSet, "1", "k1">>, <<"EVAL", sMSet, "2", "k1", "v">>,
    <<"EVAL", sMSet, "1", "k2">>, <<"EVAL", sGet1, "1", "k1">>,
    <<"EVAL", sGet1, "1", "k2">>, <<"MSET", "k1", "v">>, <<"MULTI">>, <<"EXEC">> }

DispatchKeys == \E args \in KeyArgvs : \E ub \in UBChoice(args) : Dispatch(args, ub)

NextKeys == DispatchKeys \/ SetMaster

SpecKeys == InitScript /\ [][NextKeys]_vars

\* The key arguments of a dispatched argv: the positions from first_key_pos to
\* last_key_pos, every key_arg_step-th one.
SteppedKeyArgs(args) ==
  LET k == DetermineKeys(Find(args[1]), args)
  IN {ArgS(args, i) : i \in {j \in k.start .. k.end - 1 : (j - k.start) % k.step = 0}}

\* C23: a command a script dispatches, each of whose key arguments is one of the
\* declared KEYS, is not answered 'script tried accessing undeclared key', and
\* unless it is rejected by another check or queued, its handler is invoked with
\* its argv, whatever its other arguments are.
C23_NoFalseUndeclaredKey ==
  [][DispatchStep =>
       \A i \in Idx(log') :
         (/\ log'[i].ev = "RecordCmd"
          /\ log'[i].us
          /\ SteppedKeyArgs(log'[i].args) \subseteq log'[i].keys
          /\ i < Len(log'))
           => /\ ~(log'[i + 1].ev = "SendError" /\ log'[i + 1].a = kUndeclaredKey)
              /\ (log'[i + 1].ev # "SendError" /\ i + 1 \notin Appends(log'))
                   => /\ i + 2 <= Len(log')
                      /\ log'[i + 2].ev = "Invoke"
                      /\ log'[i + 2].args = log'[i].args]_vars

====
